---- MODULE Spec2Model ----
(***************************************************************************)
(* The job queue of the archival crawler (database.py), the worker loop    *)
(* that claims, handles and records jobs (worker.py), the handlers' child  *)
(* enqueueing (jobs.py) and the administrative commands (cli.py).          *)
(*                                                                         *)
(* Every Database method opens its own connection.  A connection begins a  *)
(* transaction only before an INSERT/UPDATE, never before a SELECT, so a   *)
(* method made of one statement is one atomic step, while get_next_job,    *)
(* which runs a SELECT and then an UPDATE, is two steps: other connections *)
(* may commit between them.                                                *)
(*                                                                         *)
(* The second part is the network side: the RateLimiter all threads share  *)
(* (rate_limiter.py) and Scraper.fetch with its retry loop (scraper.py).   *)
(* Its specifications leave the queue untouched, and the queue's leave the *)
(* limiter and the fetches untouched.                                      *)
(***************************************************************************)
EXTENDS Integers, Sequences, FiniteSets

\* ---------------------------------------------------------------- bounds
NumWorkers == 2
MaxJobs == 2
MaxTime == 1
MaxClaims == 4
\* threads calling the shared limiter, ticks the clock may advance, the
\* limiter's delay in ticks, the largest max_retries a fetch is called with
NumThreads == 2
MaxElapsed == 4
delay_seconds == 2
MaxRetries == 3

\* ------------------------------------------------------------- constants
\* the literal 3 of "attempts < 3" (database.py:230, worker.py:103,115)
MAX_ATTEMPTS == 3

Workers == 1..NumWorkers

\* cli.seed_jobs: the add_job calls for 'uscode' and for two of the 'scotus'
\* urls (params is left to its default, None)
SeedJobs ==
  {[job_type |-> "discover_uscode_titles", url |-> "/uscode/text", priority |-> 10],
   [job_type |-> "discover_scotus_cases", url |-> "/supremecourt/text/topic", priority |-> 9],
   [job_type |-> "discover_scotus_cases", url |-> "/supremecourt/text/author", priority |-> 9]}

\* the urls a fetched page may link to
PageUrls == {"/text/1"}

\* jobs.py: the (job_type, params, priority) a handler passes to add_job for a
\* link of its page; params "" is the falsy {} of DiscoverSupremeCourtCasesJob
Children(job_type) ==
  CASE job_type = "discover_uscode_titles" ->
         {[job_type |-> "discover_uscode_sections", params |-> "{title,name}", priority |-> 8]}
    [] job_type = "discover_uscode_sections" ->
         {[job_type |-> "scrape_uscode_section", params |-> "{title,path}", priority |-> 5],
          [job_type |-> "discover_uscode_sections", params |-> "{title,path}", priority |-> 7]}
    [] job_type = "discover_scotus_cases" ->
         {[job_type |-> "scrape_scotus_case", params |-> "", priority |-> 6]}
    [] OTHER -> {}

\* the artifact tables the scrape handlers of these job types write
ArtifactTables == {"us_code", "supreme_court_cases"}

\* the table a scrape handler saves into: save_us_code, save_supreme_court_case
ArtifactTable(job_type) ==
  CASE job_type = "scrape_uscode_section" -> "us_code"
    [] job_type = "scrape_scotus_case" -> "supreme_court_cases"

ScrapeTypes == {"scrape_uscode_section", "scrape_scotus_case"}

\* what extract_text may find on a page, fetch after fetch
PageTexts == {"text", "text, amended"}

Statuses == {"pending", "processing", "completed", "failed"}
\* what a handler call ends with: result status success, result status error,
\* or an exception (unknown job type, handler raising)
Outcomes == {"success", "error", "exception"}

\* Python None / SQL NULL, and a present value
None == <<>>
Some(x) == <<x>>

\* ------------------------------------------------------------ network side
Threads == 1..NumThreads

\* the host of Scraper.BASE_URL, and the default of wait_if_needed's domain
BASE_URL == "www.law.cornell.edu"
DEFAULT_DOMAIN == "law.cornell.edu"

\* the keys wait_if_needed is called with
Domains == {DEFAULT_DOMAIN, "uscode.house.gov"}

\* urls passed to fetch, as (host, path); host "" is a url that does not
\* start with 'http'
FetchUrls ==
  {[host |-> "", path |-> "/uscode/text"],
   [host |-> "www.law.cornell.edu", path |-> "/cfr/text"],
   [host |-> "uscode.house.gov", path |-> "/download"]}

\* if not url.startswith('http'): url = urljoin(self.BASE_URL, url)
urljoin(url) == IF url.host = "" THEN [host |-> BASE_URL, path |-> url.path] ELSE url

\* what session.get and raise_for_status end with
TransportOutcomes ==
  {"200", "404", "429", "http_error", "timeout", "connection_error", "exception"}

\* the factors of fetch's backoff sleeps, in seconds
BACKOFF_429 == 30
BACKOFF_ERROR == 5
BACKOFF_CONNECTION == 10
\* scraper.py: def fetch(self, url, max_retries: int = 3)
DEFAULT_MAX_RETRIES == 3

VARIABLES
  job_queue,    \* table job_queue: sequence of rows, id = index
  job_results,  \* table job_results: sequence of rows
  now,          \* CURRENT_TIMESTAMP
  pc,           \* per worker: loop | update | process | saved | sleep | stopped
  row,          \* per worker: get_next_job's fetched row, None outside it
  job,          \* per worker: the dictionary get_next_job returned
  ret,          \* what the add_job or reset_stuck_jobs call of the last step
                \* returned to its caller; NoCall after any other step
  claims,       \* per job id: number of times get_next_job returned it
  outcomes,     \* per job id: the outcomes workers recorded, in order
  clock,              \* time.time()
  last_request_time,  \* RateLimiter.last_request_time, per domain
  lock,               \* RateLimiter.lock: None, or the thread holding it
  wpc,                \* per thread: position in wait_if_needed
  wdomain,            \* per thread: the domain argument of its call
  called,             \* per thread: the clock when it made its call
  wake,               \* per thread: the clock from which its call may return
  fpc,                \* per thread: position in Scraper.fetch
  fetch_url,          \* per thread: url after the urljoin of fetch
  max_retries,        \* per thread: the max_retries argument
  attempt,            \* per thread: the loop variable of fetch
  responses,          \* per thread: what the transport answered, per request
  sleeps,             \* per thread: the time.sleep arguments of fetch's backoff
  waits,              \* per thread: wait_if_needed calls made by the fetch
  result,             \* per thread: what fetch returned
  stop_event,         \* WorkerPool.stop_event: whether it is set
  wfc,                \* the main thread's position in wait_for_completion
  tables,             \* the artifact tables: per table, its rows in rowid order
  sqlite_sequence,    \* per artifact table: the largest rowid it has handed out
  bucket,             \* the TokenBucketRateLimiter: rate, capacity, tokens,
                      \* last_update and lock; None while none is constructed
  tbpc,               \* per thread: position in wait_for_token
  tbwake,             \* per thread: the clock at which its time.sleep ends
  returns,            \* the clock at each return of wait_for_token, in order
  ident,              \* the identifier object x
  text,               \* str(x)
  parsed,             \* what the class's parse returned for that text
  ipc                 \* new | str | parsed: how far the round trip has got

queueVars == <<job_queue, job_results, now, pc, row, job, ret, claims, outcomes>>
limiterVars == <<clock, last_request_time, lock, wpc, wdomain, called, wake>>
fetchVars == <<fpc, fetch_url, max_retries, attempt, responses, sleeps, waits, result>>
netVars == <<limiterVars, fetchVars>>
poolVars == <<stop_event, wfc>>
storeVars == <<tables, sqlite_sequence>>
bucketVars == <<bucket, tbpc, tbwake, returns>>
identVars == <<ident, text, parsed, ipc>>
\* the classes the crawl never uses: the token bucket and the identifiers
libVars == <<bucketVars, identVars>>
\* what the limiter and the scraper never touch
dbVars == <<queueVars, poolVars, storeVars, libVars>>
vars == <<queueVars, netVars, poolVars, storeVars, libVars>>

NoCall == [op |-> "none"]
AddJobRet(t, u, v) == [op |-> "add_job", job_type |-> t, url |-> u, val |-> v]
ResetRet(n) == [op |-> "reset_stuck_jobs", val |-> n]
\* how the handler call of the last step ended
ProcessRet(o) == [op |-> "process_job", val |-> o]

\* json.dumps(params) if params else None
params_json(params) == IF params = "" THEN None ELSE Some(params)
\* json.loads(row[3]) if row[3] else {}
params_of(pj) == IF pj = None THEN "{}" ELSE pj[1]

Ids == DOMAIN job_queue

HasKey(t, u) == \E i \in Ids : job_queue[i].job_type = t /\ job_queue[i].url = u

NewRow(t, u, params, priority) ==
  [id |-> Len(job_queue) + 1, job_type |-> t, url |-> u,
   params_json |-> params_json(params), priority |-> priority,
   created_at |-> now, attempts |-> 0, last_attempt_at |-> None,
   status |-> "pending"]

\* no token bucket constructed
NoBucket ==
  /\ bucket = None
  /\ tbpc = [t \in Threads |-> "idle"]
  /\ tbwake = [t \in Threads |-> 0]
  /\ returns = <<>>

\* no identifier under way
NoIdent ==
  /\ ident = None
  /\ text = <<>>
  /\ parsed = None
  /\ ipc = "new"

\* the crawl constructs neither
InitLib == NoBucket /\ NoIdent

Init ==
  /\ job_queue = <<>>
  /\ job_results = <<>>
  /\ now = 0
  /\ pc = [w \in Workers |-> "loop"]
  /\ row = [w \in Workers |-> None]
  /\ job = [w \in Workers |-> None]
  /\ ret = NoCall
  /\ claims = <<>>
  /\ outcomes = <<>>
  \* time.time() is far past delay_seconds; defaultdict(float) reads 0.0
  /\ clock = delay_seconds
  /\ last_request_time = [d \in Domains |-> 0]
  /\ lock = None
  /\ wpc = [t \in Threads |-> "idle"]
  /\ wdomain = [t \in Threads |-> DEFAULT_DOMAIN]
  /\ called = [t \in Threads |-> 0]
  /\ wake = [t \in Threads |-> 0]
  /\ fpc = [t \in Threads |-> "idle"]
  /\ fetch_url = [t \in Threads |-> urljoin([host |-> "", path |-> "/uscode/text"])]
  /\ max_retries = [t \in Threads |-> 0]
  /\ attempt = [t \in Threads |-> 0]
  /\ responses = [t \in Threads |-> <<>>]
  /\ sleeps = [t \in Threads |-> <<>>]
  /\ waits = [t \in Threads |-> 0]
  /\ result = [t \in Threads |-> None]
  /\ stop_event = FALSE
  /\ wfc = "check"
  /\ tables = [tbl \in ArtifactTables |-> <<>>]
  /\ sqlite_sequence = [tbl \in ArtifactTables |-> 0]
  /\ InitLib

\* Database.add_job with the UNIQUE(job_type, url) constraint dropped
add_job_no_unique(t, u, params, priority) ==
  /\ job_queue' = Append(job_queue, NewRow(t, u, params, priority))
  /\ ret' = AddJobRet(t, u, Some(Len(job_queue) + 1))
  /\ claims' = Append(claims, 0)
  /\ outcomes' = Append(outcomes, <<>>)

\* Database.add_job written as an upsert (INSERT OR REPLACE): a duplicate key
\* overwrites the stored row's params and priority and puts it back to pending
add_job_upsert(t, u, params, priority) ==
  IF HasKey(t, u)
  THEN /\ job_queue' = [i \in Ids |->
                          IF job_queue[i].job_type = t /\ job_queue[i].url = u
                          THEN [job_queue[i] EXCEPT !.params_json = params_json(params),
                                                    !.priority = priority,
                                                    !.status = "pending"]
                          ELSE job_queue[i]]
       /\ ret' = AddJobRet(t, u, None)
       /\ UNCHANGED <<claims, outcomes>>
  ELSE /\ job_queue' = Append(job_queue, NewRow(t, u, params, priority))
       /\ ret' = AddJobRet(t, u, Some(Len(job_queue) + 1))
       /\ claims' = Append(claims, 0)
       /\ outcomes' = Append(outcomes, <<>>)

\* Database.add_job: one INSERT; IntegrityError on a duplicate key gives None
add_job(t, u, params, priority) ==
  IF HasKey(t, u)
  THEN /\ ret' = AddJobRet(t, u, None)
       /\ UNCHANGED <<job_queue, claims, outcomes>>
  ELSE /\ job_queue' = Append(job_queue, NewRow(t, u, params, priority))
       /\ ret' = AddJobRet(t, u, Some(Len(job_queue) + 1))
       /\ claims' = Append(claims, 0)
       /\ outcomes' = Append(outcomes, <<>>)

\* the calls the model lets add_job make: bounded in rows
CanAdd(t, u) == HasKey(t, u) \/ Len(job_queue) < MaxJobs

\* cli.seed_jobs: one add_job call made from the command line; the model seeds
\* each url once (a repeated add_job is what the handlers below make)
SeedJob ==
  \E sj \in SeedJobs :
    /\ ~HasKey(sj.job_type, sj.url)
    /\ CanAdd(sj.job_type, sj.url)
    /\ add_job(sj.job_type, sj.url, "", sj.priority)
    /\ UNCHANGED <<job_results, now, pc, row, job, netVars, poolVars, storeVars, libVars>>

\* a discovery handler's add_job call for a link, one of urls, of its page
handler_add_job(w, urls, cap) ==
  /\ pc[w] = "process"
  /\ \E c \in Children(job[w][1].job_type), u \in urls :
       /\ HasKey(c.job_type, u) \/ Len(job_queue) < cap
       /\ add_job(c.job_type, u, c.params, c.priority)
  /\ UNCHANGED <<job_results, now, pc, row, job, netVars, poolVars, storeVars, libVars>>

\* a discovery handler enqueueing a child while its worker holds a job
HandlerAddJob(w) == handler_add_job(w, PageUrls, MaxJobs)

\* WHERE status = 'pending' AND attempts < 3
Eligible == {i \in Ids : job_queue[i].status = "pending" /\ job_queue[i].attempts < MAX_ATTEMPTS}

\* the ordering with the priority taken ascending (ORDER BY priority, created_at)
Before_priority_asc(i, k) ==
  \/ job_queue[i].priority < job_queue[k].priority
  \/ /\ job_queue[i].priority = job_queue[k].priority
     /\ job_queue[i].created_at < job_queue[k].created_at

\* i comes strictly before k in ORDER BY priority DESC, created_at ASC
Before(i, k) ==
  \/ job_queue[i].priority > job_queue[k].priority
  \/ /\ job_queue[i].priority = job_queue[k].priority
     /\ job_queue[i].created_at < job_queue[k].created_at

\* the rows LIMIT 1 may yield: those with no eligible row before them
FirstEligible == {i \in Eligible : \A k \in Eligible : ~Before(k, i)}

RECURSIVE SumTo(_, _)
SumTo(f, n) == IF n = 0 THEN 0 ELSE f[n] + SumTo(f, n - 1)
\* get_next_job calls that have fetched a row so far
Fetched == SumTo(claims, Len(claims)) + Cardinality({w \in Workers : pc[w] = "update"})

\* get_next_job, first statement: the SELECT and fetchone
get_next_job_select(w) ==
  /\ pc[w] = "loop"
  /\ IF Eligible = {}
     THEN /\ pc' = [pc EXCEPT ![w] = "sleep"]
          /\ UNCHANGED row
     ELSE \E i \in FirstEligible :
          /\ row' = [row EXCEPT ![w] = Some([id |-> i,
                                            job_type |-> job_queue[i].job_type,
                                            url |-> job_queue[i].url,
                                            params_json |-> job_queue[i].params_json,
                                            attempts |-> job_queue[i].attempts])]
          /\ pc' = [pc EXCEPT ![w] = "update"]
  /\ ret' = NoCall
  /\ UNCHANGED <<job_queue, job_results, now, job, claims, outcomes, netVars, poolVars, storeVars, libVars>>

\* the same, the rows fetched over a run bounded
GetNextJobSelect(w) ==
  /\ Eligible = {} \/ Fetched < MaxClaims
  /\ get_next_job_select(w)

\* the UPDATE of get_next_job applied to row id
mark_processing(id) ==
  [job_queue EXCEPT ![id] = [@ EXCEPT !.status = "processing",
                                      !.last_attempt_at = Some(now),
                                      !.attempts = @ + 1]]

\* get_next_job, second statement: the UPDATE, commit and return of the job
GetNextJobUpdate(w) ==
  /\ pc[w] = "update"
  /\ LET r == row[w][1] IN
       /\ job_queue' = mark_processing(r.id)
       /\ job' = [job EXCEPT ![w] = Some([id |-> r.id, job_type |-> r.job_type,
                                          url |-> r.url,
                                          params |-> params_of(r.params_json),
                                          attempts |-> r.attempts])]
       /\ claims' = [claims EXCEPT ![r.id] = @ + 1]
  /\ row' = [row EXCEPT ![w] = None]
  /\ pc' = [pc EXCEPT ![w] = "process"]
  /\ ret' = NoCall
  /\ UNCHANGED <<job_results, now, outcomes, netVars, poolVars, storeVars, libVars>>

\* complete_job comparing status with 'completed', which no caller passes
complete_job_wrong_literal(job_id, status) ==
  /\ job_queue' = [job_queue EXCEPT ![job_id].status =
                     IF status = "completed" THEN "completed" ELSE "failed"]
  /\ job_results' = Append(job_results, [job_id |-> job_id, status |-> status])

\* complete_job without its INSERT INTO job_results
complete_job_no_result(job_id, status) ==
  /\ job_queue' = [job_queue EXCEPT ![job_id].status =
                     IF status = "success" THEN "completed" ELSE "failed"]
  /\ UNCHANGED job_results

\* Database.complete_job
complete_job(job_id, status) ==
  /\ job_queue' = [job_queue EXCEPT ![job_id].status =
                     IF status = "success" THEN "completed" ELSE "failed"]
  /\ job_results' = Append(job_results, [job_id |-> job_id, status |-> status])

\* Database.retry_job
retry_job(job_id) ==
  /\ job_queue' = [job_queue EXCEPT ![job_id].status = "pending"]
  /\ UNCHANGED job_results

\* Worker.run looping 'while True': the flag is never looked at
loop_top_unchecked == "loop"

\* Worker.run, 'while not self.stop_event.is_set()', evaluated as the worker
\* comes back to the top of its loop: "loop" is a worker that found the flag
\* clear and goes on to get_next_job (the flag is never cleared once set)
loop_top == IF stop_event THEN "stopped" ELSE "loop"

\* Worker.process_job with its 'except Exception' branch missing: the
\* exception leaves process_job with the job as get_next_job marked it
record_outcome_exception_escapes(j, o) ==
  CASE o = "success" -> complete_job(j.id, "success")
    [] o = "error" -> IF j.attempts < MAX_ATTEMPTS
                      THEN retry_job(j.id)
                      ELSE complete_job(j.id, "failed")
    [] o = "exception" -> UNCHANGED <<job_queue, job_results>>

\* Worker.process_job after the handler has ended with outcome o: the branch
\* of result.get('status') == 'success', its else branch, and the except
\* branch, which an exception raised anywhere in the try block reaches (the
\* lookup of the handler, the handler, the complete_job or retry_job call)
record_outcome(j, o) ==
  CASE o = "success" -> complete_job(j.id, "success")
    [] o = "error" -> IF j.attempts < MAX_ATTEMPTS
                      THEN retry_job(j.id)
                      ELSE complete_job(j.id, "failed")
    [] o = "exception" -> IF j.attempts < MAX_ATTEMPTS
                          THEN retry_job(j.id)
                          ELSE complete_job(j.id, "failed")

\* how a handler may end: 'if not response: return {'status': 'error', ...}'
\* after a fetch that returned None, any way otherwise
handler_outcomes(w) ==
  IF fpc[w] = "returned" /\ result[w] = None THEN {"error"}
  ELSE IF pc[w] = "saved" THEN {"success", "exception"}
  ELSE Outcomes

\* the handler's frame is gone, and with it the locals of the fetch it made
fetch_locals_gone(w) ==
  /\ fpc' = [fpc EXCEPT ![w] = "idle"]
  /\ fetch_url' = [fetch_url EXCEPT ![w] = urljoin([host |-> "", path |-> "/uscode/text"])]
  /\ max_retries' = [max_retries EXCEPT ![w] = 0]
  /\ attempt' = [attempt EXCEPT ![w] = 0]
  /\ responses' = [responses EXCEPT ![w] = <<>>]
  /\ sleeps' = [sleeps EXCEPT ![w] = <<>>]
  /\ waits' = [waits EXCEPT ![w] = 0]
  /\ result' = [result EXCEPT ![w] = None]

\* Worker.process_job from the handler's return or exception on, the handler
\* ending in one of outs, and the loop's condition after it
process_job(w, outs) ==
  /\ pc[w] \in {"process", "saved"}
  /\ fpc[w] \in {"idle", "returned"}
  /\ \E o \in outs \cap handler_outcomes(w) :
       /\ record_outcome(job[w][1], o)
       /\ outcomes' = [outcomes EXCEPT ![job[w][1].id] =
                         Append(@, IF o = "success" THEN "success" ELSE "failure")]
       /\ ret' = ProcessRet(o)
  /\ job' = [job EXCEPT ![w] = None]
  /\ pc' = [pc EXCEPT ![w] = loop_top]
  /\ fetch_locals_gone(w)
  /\ UNCHANGED <<now, row, claims, limiterVars, poolVars, storeVars, libVars>>

ProcessJob(w) == process_job(w, Outcomes)

\* Worker.run: time.sleep(5) after get_next_job returned None or after an
\* exception reached the loop, then the loop's condition
Sleep(w) ==
  /\ pc[w] = "sleep"
  /\ pc' = [pc EXCEPT ![w] = loop_top]
  /\ ret' = NoCall
  /\ UNCHANGED <<job_queue, job_results, now, row, job, claims, outcomes, netVars, poolVars, storeVars, libVars>>

\* reset_stuck_jobs also setting attempts = 0 on the rows it resets
ResetStuckJobs_clears_attempts ==
  /\ job_queue' = [i \in Ids |->
                     IF job_queue[i].status = "processing"
                     THEN [job_queue[i] EXCEPT !.status = "pending", !.attempts = 0,
                                               !.last_attempt_at = None]
                     ELSE job_queue[i]]
  /\ ret' = ResetRet(Cardinality({i \in Ids : job_queue[i].status = "processing"}))
  /\ UNCHANGED <<job_results, now, pc, row, job, claims, outcomes, netVars, poolVars, storeVars, libVars>>

\* cli.reset_stuck_jobs: one UPDATE; returns cursor.rowcount
ResetStuckJobs ==
  /\ job_queue' = [i \in Ids |->
                     IF job_queue[i].status = "processing"
                     THEN [job_queue[i] EXCEPT !.status = "pending", !.last_attempt_at = None]
                     ELSE job_queue[i]]
  /\ ret' = ResetRet(Cardinality({i \in Ids : job_queue[i].status = "processing"}))
  /\ UNCHANGED <<job_results, now, pc, row, job, claims, outcomes, netVars, poolVars, storeVars, libVars>>

\* the clock CURRENT_TIMESTAMP reads moves on
Tick ==
  /\ now < MaxTime
  /\ now' = now + 1
  /\ ret' = NoCall
  /\ UNCHANGED <<job_queue, job_results, pc, row, job, claims, outcomes, netVars, poolVars, storeVars, libVars>>

\* Database.get_queue_stats: per-status row counts, 'completed' then overwritten
\* by the number of job_results rows with status 'success'
get_queue_stats ==
  [s \in Statuses |->
     IF s = "completed"
     THEN Cardinality({n \in DOMAIN job_results : job_results[n].status = "success"})
     ELSE Cardinality({i \in Ids : job_queue[i].status = s})]

Next ==
  \/ SeedJob
  \/ \E w \in Workers : HandlerAddJob(w)
  \/ \E w \in Workers : GetNextJobSelect(w)
  \/ \E w \in Workers : GetNextJobUpdate(w)
  \/ \E w \in Workers : ProcessJob(w)
  \/ \E w \in Workers : Sleep(w)
  \/ ResetStuckJobs
  \/ Tick

Spec == Init /\ [][Next]_vars

\* the same program run with a single worker (run_workers' default num_workers=1)
NextSeq ==
  \/ SeedJob
  \/ HandlerAddJob(1)
  \/ GetNextJobSelect(1)
  \/ GetNextJobUpdate(1)
  \/ ProcessJob(1)
  \/ Sleep(1)
  \/ ResetStuckJobs
  \/ Tick

SpecSeq == Init /\ [][NextSeq]_vars

\* the rows of table tbl with this url
RowsWithUrl(tbl, u) == {n \in DOMAIN tables[tbl] : tables[tbl][n].url = u}

\* a plain INSERT into a table without the UNIQUE constraint on url
save_artifact_insert_only(tbl, u, text_content) ==
  /\ tables' = [tables EXCEPT ![tbl] =
                  Append(@, [id |-> sqlite_sequence[tbl] + 1, url |-> u,
                             text_content |-> text_content])]
  /\ sqlite_sequence' = [sqlite_sequence EXCEPT ![tbl] = @ + 1]

\* save_us_code, save_supreme_court_case: INSERT OR REPLACE on a table with
\* url UNIQUE and id AUTOINCREMENT: the row with this url, if any, is deleted
\* and the new row gets the next id
save_artifact(tbl, u, text_content) ==
  /\ tables' = [tables EXCEPT ![tbl] =
                  Append(SelectSeq(@, LAMBDA r : r.url # u),
                         [id |-> sqlite_sequence[tbl] + 1, url |-> u,
                          text_content |-> text_content])]
  /\ sqlite_sequence' = [sqlite_sequence EXCEPT ![tbl] = @ + 1]

\* a scrape handler's save of what it extracted, its last call before
\* 'return {'status': 'success', ...}'
HandlerSave(w) ==
  /\ pc[w] = "process"
  /\ job[w][1].job_type \in ScrapeTypes
  /\ \E text_content \in PageTexts :
       save_artifact(ArtifactTable(job[w][1].job_type), job[w][1].url, text_content)
  /\ pc' = [pc EXCEPT ![w] = "saved"]
  /\ ret' = NoCall
  /\ UNCHANGED <<job_queue, job_results, now, row, job, claims, outcomes, netVars, poolVars, libVars>>

\* the handler's end: a scrape handler that has not saved has not succeeded
HandlerEnd(w) ==
  /\ ProcessJob(w)
  /\ (pc[w] = "process" /\ job[w][1].job_type \in ScrapeTypes) => ret'.val # "success"

NextStore ==
  \/ SeedJob
  \/ HandlerAddJob(1)
  \/ HandlerSave(1)
  \/ GetNextJobSelect(1)
  \/ GetNextJobUpdate(1)
  \/ HandlerEnd(1)
  \/ Sleep(1)
  \/ ResetStuckJobs

\* one worker on the queue, the scrape handlers saving into the artifact tables
SpecStore == Init /\ [][NextStore]_vars

\* get_next_job raising (sqlite3.OperationalError, say) at its SELECT or at its
\* UPDATE: get_connection rolls back, Worker.run logs, sleeps 5 s and loops
GetNextJobFails(w) ==
  /\ pc[w] \in {"loop", "update"}
  /\ row' = [row EXCEPT ![w] = None]
  /\ pc' = [pc EXCEPT ![w] = "sleep"]
  /\ ret' = NoCall
  /\ UNCHANGED <<job_queue, job_results, now, job, claims, outcomes, netVars, poolVars, storeVars, libVars>>

\* the failure leaving Worker.run's loop instead of being caught there
RecordFails_uncaught(w) ==
  /\ pc[w] \in {"process", "saved"}
  /\ job' = [job EXCEPT ![w] = None]
  /\ pc' = [pc EXCEPT ![w] = "stopped"]
  /\ ret' = NoCall
  /\ UNCHANGED <<job_queue, job_results, now, row, claims, outcomes, netVars, poolVars, storeVars, libVars>>

\* process_job raising out of its except branch: the retry_job or complete_job
\* called there raised too and was rolled back; Worker.run logs, sleeps, loops
RecordFails(w) ==
  /\ pc[w] \in {"process", "saved"}
  /\ job' = [job EXCEPT ![w] = None]
  /\ pc' = [pc EXCEPT ![w] = "sleep"]
  /\ ret' = NoCall
  /\ UNCHANGED <<job_queue, job_results, now, row, claims, outcomes, netVars, poolVars, storeVars, libVars>>

\* WorkerPool.stop, called by signal_handler or by run_workers' finally
Stop ==
  /\ ~stop_event
  /\ stop_event' = TRUE
  /\ ret' = NoCall
  /\ UNCHANGED <<job_queue, job_results, now, pc, row, job, claims, outcomes,
                 netVars, wfc, storeVars, libVars>>

\* stop's join(timeout=30) running out on a worker still in a handler, and the
\* process exiting: the workers are daemon threads and end where they are
ProcessExit ==
  /\ stop_event
  /\ \E w \in Workers : pc[w] \in {"process", "saved"}
  /\ pc' = [w \in Workers |-> "stopped"]
  /\ row' = [w \in Workers |-> None]
  /\ job' = [w \in Workers |-> None]
  /\ ret' = NoCall
  /\ UNCHANGED <<job_queue, job_results, now, claims, outcomes, netVars, poolVars, storeVars, libVars>>

\* wait_for_completion: 'while not self.stop_event.is_set()'
WaitCheck ==
  /\ wfc = "check"
  /\ wfc' = IF stop_event THEN "returned" ELSE "read"
  /\ ret' = NoCall
  /\ UNCHANGED <<job_queue, job_results, now, pc, row, job, claims, outcomes,
                 netVars, stop_event, storeVars, libVars>>

\* wait_for_completion leaving its loop as soon as nothing is pending
done_pending_only(st) == st["pending"] = 0

\* wait_for_completion: 'if pending == 0 and processing == 0: break'
done(st) == st["pending"] = 0 /\ st["processing"] = 0

\* wait_for_completion: the get_queue_stats call and the test of what it read,
\* then time.sleep(check_interval)
WaitRead ==
  /\ wfc = "read"
  /\ wfc' = IF done(get_queue_stats) THEN "returned" ELSE "check"
  /\ ret' = NoCall
  /\ UNCHANGED <<job_queue, job_results, now, pc, row, job, claims, outcomes,
                 netVars, stop_event, storeVars, libVars>>

NextPool ==
  \/ SeedJob
  \/ \E w \in Workers : HandlerAddJob(w)
  \/ \E w \in Workers : GetNextJobSelect(w)
  \/ \E w \in Workers : GetNextJobUpdate(w)
  \/ \E w \in Workers : GetNextJobFails(w)
  \/ \E w \in Workers : ProcessJob(w)
  \/ \E w \in Workers : RecordFails(w)
  \/ \E w \in Workers : Sleep(w)
  \/ Stop
  \/ ProcessExit
  \/ WaitCheck
  \/ WaitRead

\* run_workers: the pool of workers, the main thread in wait_for_completion,
\* and the stop signal
SpecPool == Init /\ [][NextPool]_vars

\* the three case pages the topic page of the end-to-end run links to
E2EUrls == {"/supremecourt/text/1", "/supremecourt/text/2", "/supremecourt/text/3"}

\* the discovery job of the end-to-end run, as cli.seed_jobs enqueues it
E2ESeed ==
  [job_type |-> "discover_scotus_cases", url |-> "/supremecourt/text/topic", priority |-> 9]

\* the row cli.seed_jobs' add_job call inserts for seed sj as row i
SeedRow(i, sj) ==
  [id |-> i, job_type |-> sj.job_type, url |-> sj.url,
   params_json |-> params_json(""), priority |-> sj.priority,
   created_at |-> 0, attempts |-> 0, last_attempt_at |-> None,
   status |-> "pending"]

\* the crawler's objects after construction, seeds enqueued
InitApp(seeds) ==
  /\ job_queue = [i \in DOMAIN seeds |-> SeedRow(i, seeds[i])]
  /\ job_results = <<>>
  /\ now = 0
  /\ pc = [w \in Workers |-> "loop"]
  /\ row = [w \in Workers |-> None]
  /\ job = [w \in Workers |-> None]
  /\ ret = NoCall
  /\ claims = [i \in DOMAIN seeds |-> 0]
  /\ outcomes = [i \in DOMAIN seeds |-> <<>>]
  /\ clock = delay_seconds
  /\ last_request_time = [d \in Domains |-> 0]
  /\ lock = None
  /\ wpc = [t \in Threads |-> "idle"]
  /\ wdomain = [t \in Threads |-> DEFAULT_DOMAIN]
  /\ called = [t \in Threads |-> 0]
  /\ wake = [t \in Threads |-> 0]
  /\ fpc = [t \in Threads |-> "idle"]
  /\ fetch_url = [t \in Threads |-> urljoin([host |-> "", path |-> "/uscode/text"])]
  /\ max_retries = [t \in Threads |-> 0]
  /\ attempt = [t \in Threads |-> 0]
  /\ responses = [t \in Threads |-> <<>>]
  /\ sleeps = [t \in Threads |-> <<>>]
  /\ waits = [t \in Threads |-> 0]
  /\ result = [t \in Threads |-> None]
  /\ stop_event = FALSE
  /\ wfc = "check"
  /\ tables = [tbl \in ArtifactTables |-> <<>>]
  /\ sqlite_sequence = [tbl \in ArtifactTables |-> 0]

\* the state run_workers starts from after 'seed' has enqueued seeds
InitSeeded(seeds) == InitApp(seeds) /\ InitLib

\* the end-to-end run starts with the one discovery job
InitE2E == InitSeeded(<<E2ESeed>>)

\* two discovery jobs of equal priority seeded
InitPair ==
  InitSeeded(<<[job_type |-> "discover_scotus_cases", url |-> "/supremecourt/text/topic",
                priority |-> 9],
               [job_type |-> "discover_scotus_cases", url |-> "/supremecourt/text/author",
                priority |-> 9]>>)

\* the steps of worker w's thread when every handler returns
WorkerStep(w) ==
  \/ get_next_job_select(w)
  \/ GetNextJobUpdate(w)
  \/ ProcessJob(w)
  \/ Sleep(w)

\* the steps of the main thread inside wait_for_completion
MainStep == WaitCheck \/ WaitRead

NextLive ==
  \/ \E w \in Workers : WorkerStep(w)
  \/ MainStep

\* the pool on a seeded queue with the main thread in wait_for_completion and
\* nobody stopping it; every thread that can take a step is scheduled in the
\* end (threading.Thread: each worker's loop and the main thread run on)
SpecLive ==
  /\ InitPair /\ [][NextLive]_vars
  /\ \A w \in Workers : WF_vars(WorkerStep(w))
  /\ WF_vars(MainStep)

\* DiscoverSupremeCourtCasesJob.handle: one add_job per case link of the page
E2EHandlerAddJob(w) == handler_add_job(w, E2EUrls, 1 + Cardinality(E2EUrls))

\* the handler has made its add_job call for every link of its page
EnqueuedAll(w) ==
  \A c \in Children(job[w][1].job_type), u \in E2EUrls : HasKey(c.job_type, u)

\* a handler that succeeds: it returns success after its last add_job call
E2EProcessJob(w) ==
  /\ pc[w] = "process"
  /\ EnqueuedAll(w)
  /\ process_job(w, {"success"})

\* run_workers: stop() in the finally clause, after wait_for_completion
StopAfterWait == wfc = "returned" /\ Stop

NextE2E ==
  \/ \E w \in Workers : E2EHandlerAddJob(w)
  \/ \E w \in Workers : get_next_job_select(w)
  \/ \E w \in Workers : GetNextJobUpdate(w)
  \/ \E w \in Workers : E2EProcessJob(w)
  \/ \E w \in Workers : Sleep(w)
  \/ WaitCheck
  \/ WaitRead
  \/ StopAfterWait

\* the end-to-end run: one discovery job seeded, every handler succeeding, the
\* pool run until wait_for_completion returns
SpecE2E == InitE2E /\ [][NextE2E]_vars

\* the tables' columns and the workers' locals
TypeOK ==
  /\ \A i \in Ids :
       /\ job_queue[i].id = i
       /\ job_queue[i].params_json \in {None, Some("{title,name}"), Some("{title,path}")}
       /\ job_queue[i].priority \in 5..10
       /\ job_queue[i].created_at \in 0..MaxTime
       /\ job_queue[i].attempts \in Nat
       /\ job_queue[i].last_attempt_at \in {None} \cup {Some(t) : t \in 0..MaxTime}
       /\ job_queue[i].status \in Statuses
  /\ \A n \in DOMAIN job_results :
       job_results[n].job_id \in Ids /\ job_results[n].status \in {"success", "failed"}
  /\ now \in 0..MaxTime
  /\ \A w \in Workers :
       /\ pc[w] \in {"loop", "update", "process", "saved", "sleep", "stopped"}
       /\ (row[w] # None) = (pc[w] = "update")
       /\ (job[w] # None) = (pc[w] \in {"process", "saved"})
  /\ Len(claims) = Len(job_queue) /\ Len(outcomes) = Len(job_queue)

\* ------------------------------------------------------------------------
\* RateLimiter (rate_limiter.py)
\* ------------------------------------------------------------------------

\* thread t calls wait_if_needed(d) and arrives at "with self.lock"
enter_wait(t, d) ==
  /\ wpc' = [wpc EXCEPT ![t] = "acquire"]
  /\ wdomain' = [wdomain EXCEPT ![t] = d]
  /\ called' = [called EXCEPT ![t] = clock]
  /\ UNCHANGED <<clock, last_request_time, lock, wake>>

\* a caller of the limiter other than fetch
WaitCall(t) ==
  /\ wpc[t] = "idle" /\ fpc[t] \in {"idle", "returned"}
  /\ \E d \in Domains : enter_wait(t, d)
  /\ UNCHANGED <<dbVars, fetchVars>>

\* the time from which the call may return: current_time, or current_time +
\* sleep_time when time_since_last_request < delay_seconds
wake_time(d) ==
  LET current_time == clock
      time_since_last_request == current_time - last_request_time[d]
  IN IF time_since_last_request < delay_seconds
     THEN current_time + (delay_seconds - time_since_last_request)
     ELSE current_time

\* wait_if_needed entered without taking self.lock
Acquire_no_lock(t) ==
  /\ wpc[t] = "acquire"
  /\ lock' = Some(t)
  /\ wake' = [wake EXCEPT ![t] = wake_time(wdomain[t])]
  /\ wpc' = [wpc EXCEPT ![t] = "held"]
  /\ UNCHANGED <<clock, last_request_time, wdomain, called>>
  /\ UNCHANGED <<dbVars, fetchVars>>

\* wait_if_needed: the lock is taken, the clock and last_request_time[domain]
\* are read and the sleep, if any, begins (the lock stays held)
Acquire(t) ==
  /\ wpc[t] = "acquire"
  /\ lock = None
  /\ lock' = Some(t)
  /\ wake' = [wake EXCEPT ![t] = wake_time(wdomain[t])]
  /\ wpc' = [wpc EXCEPT ![t] = "held"]
  /\ UNCHANGED <<clock, last_request_time, wdomain, called>>
  /\ UNCHANGED <<dbVars, fetchVars>>

\* wait_if_needed returning with self.lock still held: the request and the
\* backoff sleep that follow are made inside the lock
Record_lock_kept(t) ==
  /\ wpc[t] = "held"
  /\ clock >= wake[t]
  /\ last_request_time' = [last_request_time EXCEPT ![wdomain[t]] = clock]
  /\ lock' = lock
  /\ wpc' = [wpc EXCEPT ![t] = "idle"]
  /\ wdomain' = [wdomain EXCEPT ![t] = DEFAULT_DOMAIN]
  /\ called' = [called EXCEPT ![t] = 0]
  /\ wake' = [wake EXCEPT ![t] = 0]
  /\ UNCHANGED clock
  /\ UNCHANGED <<dbVars, fetchVars>>

\* wait_if_needed: time.sleep has returned (no earlier than asked),
\* last_request_time[domain] = time.time(), the lock is released
Record(t) ==
  /\ wpc[t] = "held"
  /\ clock >= wake[t]
  /\ last_request_time' = [last_request_time EXCEPT ![wdomain[t]] = clock]
  /\ lock' = None
  /\ wpc' = [wpc EXCEPT ![t] = "idle"]
  /\ wdomain' = [wdomain EXCEPT ![t] = DEFAULT_DOMAIN]
  /\ called' = [called EXCEPT ![t] = 0]
  /\ wake' = [wake EXCEPT ![t] = 0]
  /\ UNCHANGED clock
  /\ UNCHANGED <<dbVars, fetchVars>>

\* time passes
TickClock ==
  /\ clock < delay_seconds + MaxElapsed
  /\ clock' = clock + 1
  /\ UNCHANGED <<last_request_time, lock, wpc, wdomain, called, wake>>
  /\ UNCHANGED <<dbVars, fetchVars>>

\* time passes only while every call in progress is blocked on the lock or
\* asleep: threads that can run do so at once and sleeps end on time
TickPrompt ==
  /\ \A t \in Threads : /\ wpc[t] = "acquire" => lock # None
                        /\ wpc[t] = "held" => wake[t] > clock
  /\ TickClock

NextRL ==
  \/ \E t \in Threads : WaitCall(t)
  \/ \E t \in Threads : Acquire(t)
  \/ \E t \in Threads : Record(t)
  \/ TickClock

\* the limiter shared by NumThreads threads, threads and sleeps as slow as
\* they like
SpecRL == Init /\ [][NextRL]_vars

NextRLPrompt ==
  \/ \E t \in Threads : WaitCall(t)
  \/ \E t \in Threads : Acquire(t)
  \/ \E t \in Threads : Record(t)
  \/ TickPrompt

\* the same with threads that lose no time of their own
SpecRLPrompt == Init /\ [][NextRLPrompt]_vars

\* ------------------------------------------------------------------------
\* Scraper.fetch (scraper.py)
\* ------------------------------------------------------------------------

\* fetch(url, max_retries) is called, url one of urls and max_retries of ms
fetch_call(t, urls, ms) ==
  /\ fpc[t] \in {"idle", "returned"} /\ wpc[t] = "idle"
  /\ \E u \in urls, m \in ms :
       /\ fetch_url' = [fetch_url EXCEPT ![t] = urljoin(u)]
       /\ max_retries' = [max_retries EXCEPT ![t] = m]
  /\ attempt' = [attempt EXCEPT ![t] = 0]
  /\ responses' = [responses EXCEPT ![t] = <<>>]
  /\ sleeps' = [sleeps EXCEPT ![t] = <<>>]
  /\ waits' = [waits EXCEPT ![t] = 0]
  /\ result' = [result EXCEPT ![t] = None]
  /\ fpc' = [fpc EXCEPT ![t] = "loop"]
  /\ UNCHANGED <<dbVars, limiterVars>>

\* a fetch of any url with any max_retries
FetchCall(t) == fetch_call(t, FetchUrls, 0..MaxRetries)

\* a handler giving its fetch what is left of the job's attempts
HandlerFetch_shared_budget(w) ==
  /\ pc[w] = "process" /\ fpc[w] = "idle"
  /\ fetch_call(w, {[host |-> "", path |-> job[w][1].url]},
                {MAX_ATTEMPTS - job[w][1].attempts})

\* a handler's 'response = self.scraper.fetch(url)': the job's url, and
\* max_retries left to its default (worker w runs on thread w)
HandlerFetch(w) ==
  /\ pc[w] = "process" /\ fpc[w] = "idle"
  /\ fetch_call(w, {[host |-> "", path |-> job[w][1].url]}, {DEFAULT_MAX_RETRIES})

\* fetch calling the limiter before its first request only
FetchLoop_wait_once(t) ==
  /\ fpc[t] = "loop"
  /\ IF attempt[t] < max_retries[t]
     THEN /\ IF attempt[t] = 0
             THEN enter_wait(t, DEFAULT_DOMAIN) /\ waits' = [waits EXCEPT ![t] = @ + 1]
             ELSE UNCHANGED <<limiterVars, waits>>
          /\ fpc' = [fpc EXCEPT ![t] = "limiter"]
          /\ UNCHANGED result
     ELSE /\ result' = [result EXCEPT ![t] = None]
          /\ fpc' = [fpc EXCEPT ![t] = "returned"]
          /\ UNCHANGED <<limiterVars, waits>>
  /\ UNCHANGED <<fetch_url, max_retries, attempt, responses, sleeps>>
  /\ UNCHANGED dbVars

\* for attempt in range(max_retries): self.rate_limiter.wait_if_needed(), and
\* the return None after the loop
FetchLoop(t) ==
  /\ fpc[t] = "loop"
  /\ IF attempt[t] < max_retries[t]
     THEN /\ enter_wait(t, DEFAULT_DOMAIN)
          /\ waits' = [waits EXCEPT ![t] = @ + 1]
          /\ fpc' = [fpc EXCEPT ![t] = "limiter"]
          /\ UNCHANGED result
     ELSE /\ result' = [result EXCEPT ![t] = None]
          /\ fpc' = [fpc EXCEPT ![t] = "returned"]
          /\ UNCHANGED <<limiterVars, waits>>
  /\ UNCHANGED <<fetch_url, max_retries, attempt, responses, sleeps>>
  /\ UNCHANGED dbVars

\* the 404 branch missing: a 404 handled as any other HTTP error
returns_after_404_retried(o, k, m) ==
  \/ o = "200"
  \/ o # "429" /\ k = m - 1

\* fetch returns right after outcome o of attempt k: the return response, the
\* return None of 404, the return None of "attempt == max_retries - 1"
returns_after(o, k, m) ==
  \/ o \in {"200", "404"}
  \/ o # "429" /\ k = m - 1

\* the 429 sleep not growing with the attempt
backoff_429_flat(o, k) ==
  CASE o = "429" -> BACKOFF_429
    [] o = "connection_error" -> (k + 1) * BACKOFF_CONNECTION
    [] OTHER -> (k + 1) * BACKOFF_ERROR

\* the argument of the time.sleep that follows outcome o of attempt k
backoff(o, k) ==
  CASE o = "429" -> (k + 1) * BACKOFF_429
    [] o = "connection_error" -> (k + 1) * BACKOFF_CONNECTION
    [] OTHER -> (k + 1) * BACKOFF_ERROR

\* a retry loop in which a 429 does not use up an attempt
next_attempt_429_free(o, k) == IF o = "429" THEN k ELSE k + 1

\* the for loop's next value of attempt
next_attempt(o, k) == k + 1

\* session.get answering one of outs, raise_for_status and the except
\* clauses, up to the return or the call of the backoff's time.sleep
fetch_get(t, outs) ==
  /\ fpc[t] = "limiter" /\ wpc[t] = "idle"
  /\ \E o \in outs :
       /\ responses' = [responses EXCEPT ![t] = Append(@, o)]
       /\ IF returns_after(o, attempt[t], max_retries[t])
          THEN /\ result' = [result EXCEPT ![t] = IF o = "200" THEN Some("response") ELSE None]
               /\ fpc' = [fpc EXCEPT ![t] = "returned"]
               /\ UNCHANGED <<attempt, sleeps>>
          ELSE /\ sleeps' = [sleeps EXCEPT ![t] = Append(@, backoff(o, attempt[t]))]
               /\ attempt' = [attempt EXCEPT ![t] = next_attempt(o, attempt[t])]
               /\ fpc' = [fpc EXCEPT ![t] = "backoff"]
               /\ UNCHANGED result
  /\ UNCHANGED <<fetch_url, max_retries, waits>>
  /\ UNCHANGED <<dbVars, limiterVars>>

\* a request to a transport that may answer in any way
FetchGet(t) == fetch_get(t, TransportOutcomes)

\* the backoff's time.sleep returns and the for loop goes on
BackoffEnd(t) ==
  /\ fpc[t] = "backoff"
  /\ fpc' = [fpc EXCEPT ![t] = "loop"]
  /\ UNCHANGED <<fetch_url, max_retries, attempt, responses, sleeps, waits, result>>
  /\ UNCHANGED <<dbVars, limiterVars>>

NextFetch ==
  \/ FetchCall(1)
  \/ FetchLoop(1)
  \/ Acquire(1)
  \/ Record(1)
  \/ FetchGet(1)
  \/ BackoffEnd(1)
  \/ TickClock

\* one thread fetching through the scraper and its limiter
SpecFetch == Init /\ [][NextFetch]_vars

NextFetchShared ==
  \/ FetchCall(1)
  \/ FetchLoop(1)
  \/ FetchGet(1)
  \/ BackoffEnd(1)
  \/ \E t \in Threads \ {1} : WaitCall(t)
  \/ \E t \in Threads : Acquire(t)
  \/ \E t \in Threads : Record(t)
  \/ TickClock

\* the same while the other threads use the limiter the scraper shares with
\* them
SpecFetchShared == Init /\ [][NextFetchShared]_vars

\* the handler returns, or raises, after its fetch has returned
HandlerReturn(w) == fpc[w] = "returned" /\ ProcessJob(w)

NextHandle ==
  \/ SeedJob
  \/ GetNextJobSelect(1)
  \/ GetNextJobUpdate(1)
  \/ HandlerFetch(1)
  \/ FetchLoop(1)
  \/ Acquire(1)
  \/ Record(1)
  \/ FetchGet(1)
  \/ BackoffEnd(1)
  \/ TickClock
  \/ HandlerReturn(1)
  \/ Sleep(1)

\* one worker on the queue, its handlers fetching their job's url through the
\* scraper and the limiter
SpecHandle == Init /\ [][NextHandle]_vars

\* a request the server answers with the page
FetchGetOk(t) == fetch_get(t, {"200"})

NextBackoff ==
  \/ \E w \in Workers : GetNextJobSelect(w)
  \/ \E w \in Workers : GetNextJobUpdate(w)
  \/ \E w \in Workers : HandlerFetch(w)
  \/ \E w \in Workers : FetchLoop(w)
  \/ FetchGet(1)
  \/ BackoffEnd(1)
  \/ \E w \in Workers \ {1} : FetchGetOk(w)
  \/ \E t \in Threads : Acquire(t)
  \/ \E t \in Threads : Record(t)
  \/ \E w \in Workers : HandlerReturn(w)
  \/ \E w \in Workers : Sleep(w)
  \/ TickClock

\* the pool on two seeded jobs, every handler fetching its job's url through
\* the shared scraper; worker 1's requests may fail in any way, the other
\* workers' requests are answered
SpecBackoff == InitPair /\ [][NextBackoff]_vars

\* a server on which the pages the discovery pages link to are gone: their
\* urls answer 404 at every request, every other url answers with its page
server_answers(url) == IF url.path \in PageUrls THEN {"404"} ELSE {"200"}

\* fetch's request sent to that server
ServerGet(t) == fetch_get(t, server_answers(fetch_url[t]))

\* a discovery handler's add_job call for a link of the page it fetched
PageAddJob(w) ==
  /\ fpc[w] = "returned" /\ result[w] # None
  /\ HandlerAddJob(w)

NextNotFound ==
  \/ GetNextJobSelect(1)
  \/ GetNextJobUpdate(1)
  \/ HandlerFetch(1)
  \/ FetchLoop(1)
  \/ Acquire(1)
  \/ Record(1)
  \/ ServerGet(1)
  \/ PageAddJob(1)
  \/ HandlerReturn(1)
  \/ Sleep(1)
  \/ TickClock

\* one worker on a queue seeded with a discovery job whose page links to a
\* page that is gone
SpecNotFound == InitE2E /\ [][NextNotFound]_vars

NextFetchPool ==
  \/ \E t \in Threads : FetchCall(t)
  \/ \E t \in Threads : FetchLoop(t)
  \/ \E t \in Threads : FetchGet(t)
  \/ \E t \in Threads : BackoffEnd(t)
  \/ \E t \in Threads : Acquire(t)
  \/ \E t \in Threads : Record(t)
  \/ TickClock

\* the workers' threads all fetching through the scraper they share
SpecFetchPool == Init /\ [][NextFetchPool]_vars

\* ------------------------------------------------------------------------
\* TokenBucketRateLimiter (rate_limiter.py)
\* ------------------------------------------------------------------------

\* tokens are counted in units of 1/TokenScale token, rates in units per second
TokenScale == 2
MaxRate == 2
MaxCapacity == 2
\* wait_for_token calls made in a run
MaxCalls == 4

\* Python's min
min(a, b) == IF a <= b THEN a ELSE b

\* the least whole number of seconds that is at least a / b
ceil_div(a, b) == (a + b - 1) \div b

\* TokenBucketRateLimiter(rate, capacity) constructed at time.time() = at
TokenBucketRateLimiter(rate, capacity, at) ==
  [rate |-> rate, capacity |-> capacity * TokenScale,
   tokens |-> capacity * TokenScale, last_update |-> at, lock |-> None]

\* a bucket of some rate and capacity has just been constructed
InitBucket ==
  /\ InitApp(<<>>)
  /\ \E rate \in 1..MaxRate, capacity \in 1..MaxCapacity :
       bucket = TokenBucketRateLimiter(rate, capacity, delay_seconds)
  /\ tbpc = [t \in Threads |-> "idle"]
  /\ tbwake = [t \in Threads |-> 0]
  /\ returns = <<>>
  /\ NoIdent

\* a thread calls wait_for_token
WaitForTokenCall(t) ==
  /\ tbpc[t] = "idle"
  /\ Len(returns) + Cardinality({u \in Threads : tbpc[u] # "idle"}) < MaxCalls
  /\ tbpc' = [tbpc EXCEPT ![t] = "lock"]
  /\ tbwake' = [tbwake EXCEPT ![t] = 0]
  /\ UNCHANGED <<bucket, returns, identVars>>
  /\ UNCHANGED <<queueVars, netVars, poolVars, storeVars>>

\* 'with self.lock:' entered
TokenLock(t) ==
  /\ tbpc[t] = "lock"
  /\ bucket.lock = None
  /\ bucket' = [bucket EXCEPT !.lock = Some(t)]
  /\ tbpc' = [tbpc EXCEPT ![t] = "loop"]
  /\ UNCHANGED <<tbwake, returns, identVars>>
  /\ UNCHANGED <<queueVars, netVars, poolVars, storeVars>>

\* self.tokens after 'self.tokens = min(self.capacity, self.tokens + elapsed * self.rate)'
refilled == min(bucket.capacity, bucket.tokens + (clock - bucket.last_update) * bucket.rate)

\* one pass of the loop with the test of 'self.tokens >= 1' left out
wait_for_token_untested(t) ==
  /\ tbpc[t] = "loop"
  /\ bucket' = [bucket EXCEPT !.last_update = clock,
                              !.tokens = refilled - TokenScale,
                              !.lock = None]
  /\ tbpc' = [tbpc EXCEPT ![t] = "idle"]
  /\ returns' = Append(returns, clock)
  /\ UNCHANGED tbwake
  /\ UNCHANGED identVars
  /\ UNCHANGED <<queueVars, netVars, poolVars, storeVars>>

\* one pass of wait_for_token's 'while True': the refill, then either the
\* debit and the return (leaving the lock) or the start of time.sleep(wait_time)
wait_for_token(t) ==
  /\ tbpc[t] = "loop"
  /\ IF refilled >= TokenScale
     THEN /\ bucket' = [bucket EXCEPT !.last_update = clock,
                                      !.tokens = refilled - TokenScale,
                                      !.lock = None]
          /\ tbpc' = [tbpc EXCEPT ![t] = "idle"]
          /\ returns' = Append(returns, clock)
          /\ UNCHANGED tbwake
     ELSE /\ bucket' = [bucket EXCEPT !.last_update = clock, !.tokens = refilled]
          /\ tbwake' = [tbwake EXCEPT ![t] =
                          clock + ceil_div(TokenScale - refilled, bucket.rate)]
          /\ tbpc' = [tbpc EXCEPT ![t] = "sleep"]
          /\ UNCHANGED returns
  /\ UNCHANGED identVars
  /\ UNCHANGED <<queueVars, netVars, poolVars, storeVars>>

\* time.sleep(wait_time) over, the lock still held
TokenWake(t) ==
  /\ tbpc[t] = "sleep"
  /\ clock >= tbwake[t]
  /\ tbpc' = [tbpc EXCEPT ![t] = "loop"]
  /\ UNCHANGED <<bucket, tbwake, returns, identVars>>
  /\ UNCHANGED <<queueVars, netVars, poolVars, storeVars>>

NextBucket ==
  \/ \E t \in Threads : WaitForTokenCall(t)
  \/ \E t \in Threads : TokenLock(t)
  \/ \E t \in Threads : wait_for_token(t)
  \/ \E t \in Threads : TokenWake(t)
  \/ TickClock

\* threads sharing one token bucket
SpecBucket == InitBucket /\ [][NextBucket]_vars

\* the bucket's fields and the threads' positions in wait_for_token
TypeBucket ==
  /\ bucket.rate \in 1..MaxRate
  /\ bucket.capacity \in {c * TokenScale : c \in 1..MaxCapacity}
  /\ bucket.tokens \in Int
  /\ bucket.last_update \in delay_seconds..clock
  /\ bucket.lock \in {None} \cup {Some(t) : t \in Threads}
  /\ tbpc \in [Threads -> {"idle", "lock", "loop", "sleep"}]
  /\ \A t \in Threads : (bucket.lock = Some(t)) = (tbpc[t] \in {"loop", "sleep"})
  /\ tbwake \in [Threads -> Nat]
  /\ returns \in Seq(Nat) /\ Len(returns) <= MaxCalls

\* ------------------------------------------------------------------------
\* Canonical identifiers (federal/identifiers.py)
\* ------------------------------------------------------------------------
\* A Python str is the sequence of its characters; an Optional[str] is None
\* or Some of one.

Digits == <<"0", "1", "2", "3", "4", "5", "6", "7", "8", "9">>
DigitChars == {Digits[i] : i \in DOMAIN Digits}
LowerCase == {"a", "b", "c", "d", "e", "f", "g", "h", "i", "j", "k", "l", "m",
              "n", "o", "p", "q", "r", "s", "t", "u", "v", "w", "x", "y", "z"}
UpperCase == {"A", "B", "C", "D", "E", "F", "G", "H", "I", "J", "K", "L", "M",
              "N", "O", "P", "Q", "R", "S", "T", "U", "V", "W", "X", "Y", "Z"}
\* the class [a-zA-Z0-9\.\-]
SectionChars == LowerCase \cup UpperCase \cup DigitChars \cup {".", "-"}

\* the integer fields and the section fields the identifiers are built from;
\* the last integer and the last three sections are outside what parse accepts
IdInts == {0, 7, 21, 1308, -1}
IdSections ==
  {<<"8", "4", "1">>, <<"1", "2">>, <<"1", "a", "-", "2", ".", "B">>,
   <<>>, <<"a", ":", "b">>, <<"1", "2", "\n">>}

\* str(n) of an int
RECURSIVE int_str(_)
int_str(n) ==
  IF n < 0 THEN <<"-">> \o int_str(0 - n)
  ELSE IF n < 10 THEN <<Digits[n + 1]>>
  ELSE int_str(n \div 10) \o <<Digits[(n % 10) + 1]>>

\* int(s) of a str that \d+ matched
RECURSIVE int_of(_)
int_of(s) ==
  IF s = <<>> THEN 0
  ELSE 10 * int_of(SubSeq(s, 1, Len(s) - 1))
         + ((CHOOSE i \in DOMAIN Digits : Digits[i] = s[Len(s)]) - 1)

\* s matches \d+ , s matches [a-zA-Z0-9\.\-]+
IsDigits(s) == s # <<>> /\ \A i \in DOMAIN s : s[i] \in DigitChars
IsSection(s) == s # <<>> /\ \A i \in DOMAIN s : s[i] \in SectionChars

\* what lies before the place where '$' matches: the end of s, or the
\* newline s ends with
re_end(s) == IF s # <<>> /\ s[Len(s)] = "\n" THEN SubSeq(s, 1, Len(s) - 1) ELSE s

StartsWith(s, prefix) == Len(s) >= Len(prefix) /\ SubSeq(s, 1, Len(prefix)) = prefix

\* the pieces of s between the occurrences of sep
RECURSIVE split(_, _)
split(s, sep) ==
  IF \E i \in DOMAIN s : s[i] = sep
  THEN LET i == CHOOSE k \in DOMAIN s : s[k] = sep /\ \A m \in 1..(k - 1) : s[m] # sep
       IN <<SubSeq(s, 1, i - 1)>> \o split(SubSeq(s, i + 1, Len(s)), sep)
  ELSE <<s>>

\* UscId.__str__: f"usc:{self.title}:{self.section}"
UscId_str(x) == <<"u", "s", "c", ":">> \o int_str(x.title) \o <<":">> \o x.section

\* UscId.parse: re.match(r"^usc:(\d+):([a-zA-Z0-9\.\-]+)$", usc_id)
UscId_parse(s) ==
  LET body == re_end(s)
      f == split(SubSeq(body, 5, Len(body)), ":")
  IN IF StartsWith(body, <<"u", "s", "c", ":">>) /\ Len(f) = 2
        /\ IsDigits(f[1]) /\ IsSection(f[2])
     THEN Some([kind |-> "usc", title |-> int_of(f[1]), section |-> f[2]])
     ELSE None

\* PublicLawId.__str__: f"pl:{self.congress}-{self.number}"
PublicLawId_str(x) == <<"p", "l", ":">> \o int_str(x.congress) \o <<"-">> \o int_str(x.number)

\* PublicLawId.parse: re.match(r"^pl:(\d+)-(\d+)$", pl_id)
PublicLawId_parse(s) ==
  LET body == re_end(s)
      f == split(SubSeq(body, 4, Len(body)), "-")
  IN IF StartsWith(body, <<"p", "l", ":">>) /\ Len(f) = 2
        /\ IsDigits(f[1]) /\ IsDigits(f[2])
     THEN Some([kind |-> "pl", congress |-> int_of(f[1]), number |-> int_of(f[2])])
     ELSE None

\* f"{self.section}" of an Optional[str]
format_optional(section) == IF section = None THEN <<"N", "o", "n", "e">> ELSE section[1]

\* CfrId.__str__ without its 'if self.section:'
CfrId_str_section_always(x) ==
  <<"c", "f", "r", ":">> \o int_str(x.title) \o <<":">> \o int_str(x.part)
    \o <<":">> \o format_optional(x.section)

\* CfrId.__str__: the section is written when it is truthy
CfrId_str(x) ==
  IF x.section # None /\ x.section[1] # <<>>
  THEN <<"c", "f", "r", ":">> \o int_str(x.title) \o <<":">> \o int_str(x.part)
         \o <<":">> \o format_optional(x.section)
  ELSE <<"c", "f", "r", ":">> \o int_str(x.title) \o <<":">> \o int_str(x.part)

\* CfrId.parse: re.match(r"^cfr:(\d+):(\d+)(?::([a-zA-Z0-9\.\-]+))?$", cfr_id)
CfrId_parse(s) ==
  LET body == re_end(s)
      f == split(SubSeq(body, 5, Len(body)), ":")
  IN IF StartsWith(body, <<"c", "f", "r", ":">>) /\ Len(f) \in {2, 3}
        /\ IsDigits(f[1]) /\ IsDigits(f[2]) /\ (Len(f) = 3 => IsSection(f[3]))
     THEN Some([kind |-> "cfr", title |-> int_of(f[1]), part |-> int_of(f[2]),
                section |-> IF Len(f) = 3 THEN Some(f[3]) ELSE None])
     ELSE None

\* the identifier objects the round trip starts from
IdInputs ==
  {[kind |-> "usc", title |-> t, section |-> sec] : t \in IdInts, sec \in IdSections}
    \cup {[kind |-> "pl", congress |-> c, number |-> n] : c \in IdInts, n \in IdInts}
    \cup {[kind |-> "cfr", title |-> t, part |-> p, section |-> sec] :
            t \in IdInts, p \in IdInts,
            sec \in {None} \cup {Some(sec1) : sec1 \in IdSections}}

\* an identifier object has just been constructed
InitIdent ==
  /\ InitApp(<<>>)
  /\ NoBucket
  /\ ident \in IdInputs
  /\ text = <<>>
  /\ parsed = None
  /\ ipc = "new"

\* str(x)
IdStr ==
  /\ ipc = "new"
  /\ text' = CASE ident.kind = "usc" -> UscId_str(ident)
               [] ident.kind = "pl" -> PublicLawId_str(ident)
               [] ident.kind = "cfr" -> CfrId_str(ident)
  /\ ipc' = "str"
  /\ UNCHANGED <<ident, parsed, bucketVars>>
  /\ UNCHANGED <<queueVars, netVars, poolVars, storeVars>>

\* the parse of x's class, given that text
IdParse ==
  /\ ipc = "str"
  /\ parsed' = CASE ident.kind = "usc" -> UscId_parse(text)
                 [] ident.kind = "pl" -> PublicLawId_parse(text)
                 [] ident.kind = "cfr" -> CfrId_parse(text)
  /\ ipc' = "parsed"
  /\ UNCHANGED <<ident, text, bucketVars>>
  /\ UNCHANGED <<queueVars, netVars, poolVars, storeVars>>

NextIdent == IdStr \/ IdParse

\* identifiers formatted and parsed back
SpecIdent == InitIdent /\ [][NextIdent]_vars

\* every field of x is in the canonical alphabet: the integers are written
\* with digits only, a section is a non-empty str of [a-zA-Z0-9.-]
Canonical(x) ==
  CASE x.kind = "usc" -> x.title >= 0 /\ IsSection(x.section)
    [] x.kind = "pl" -> x.congress >= 0 /\ x.number >= 0
    [] x.kind = "cfr" -> /\ x.title >= 0 /\ x.part >= 0
                         /\ x.section # None => IsSection(x.section[1])

\* the limiter's and the fetches' variables
TypeNet ==
  /\ clock \in delay_seconds..(delay_seconds + MaxElapsed)
  /\ \A d \in Domains : last_request_time[d] \in 0..clock
  /\ lock \in {None} \cup {Some(t) : t \in Threads}
  /\ \A t \in Threads :
       /\ wpc[t] \in {"idle", "acquire", "held"}
       /\ wdomain[t] \in Domains
       /\ called[t] \in 0..clock
       /\ wake[t] \in 0..(clock + delay_seconds)
       /\ (lock = Some(t)) = (wpc[t] = "held")
       /\ fpc[t] \in {"idle", "loop", "limiter", "backoff", "returned"}
       /\ fetch_url[t].host # ""
       /\ max_retries[t] \in 0..MaxRetries
       /\ attempt[t] \in 0..max_retries[t]
       /\ \A n \in DOMAIN responses[t] : responses[t][n] \in TransportOutcomes
       /\ result[t] \in {None, Some("response")}

\* ------------------------------------------------------------------------
\* Helpers of the properties below
\* ------------------------------------------------------------------------

\* worker w's step is the return of a job from get_next_job
ClaimStep(w) == pc[w] = "update" /\ pc'[w] = "process"

\* worker w's step is the recording of a handled job's outcome
RecordStep(w) == pc[w] = "process" /\ pc'[w] = "loop"

\* the fields of a row that no operation on an existing row may change
SameIdentity(a, b) ==
  /\ a.id = b.id /\ a.job_type = b.job_type /\ a.url = b.url
  /\ a.params_json = b.params_json /\ a.priority = b.priority
  /\ a.created_at = b.created_at

RowsWithKey(q, t, u) == {i \in DOMAIN q : q[i].job_type = t /\ q[i].url = u}

Last(s) == s[Len(s)]

\* C1: every return of a job j by get_next_job is a pending -> processing
\* transition of j of its own: a caller is never handed a job that another
\* caller has already taken out of pending (so of N callers on one eligible
\* job exactly one receives it).
C1_OneCallerPerClaim ==
  [][\A w \in Workers :
       ClaimStep(w) => job_queue[row[w][1].id].status = "pending"]_vars

\* C2: a job whose handling failed on each of its 3 claims is stored as
\* 'failed', is counted under 'failed' by get_queue_stats and is not eligible
\* for get_next_job.
C2_ThreeFailuresEndFailed ==
  \A j \in Ids :
    (claims[j] = 3 /\ outcomes[j] = <<"failure", "failure", "failure">>)
      => /\ job_queue[j].status = "failed"
         /\ get_queue_stats["failed"] >= 1
         /\ j \notin Eligible

\* C3: a job claimed 3 times whose handling failed, failed and then succeeded
\* is stored as 'completed' with attempts = 3.
C3_FailFailSucceed ==
  \A j \in Ids :
    (claims[j] = 3 /\ outcomes[j] = <<"failure", "failure", "success">>)
      => /\ job_queue[j].status = "completed"
         /\ job_queue[j].attempts = 3

C3_Witness ==
  \E j \in Ids : claims[j] = 3 /\ outcomes[j] = <<"failure", "failure", "success">>

\* C4: when a worker records a failure the job becomes 'pending' if its
\* stored attempts are below MAX_ATTEMPTS and 'failed' if they have reached
\* it; when it records a success the job becomes 'completed'.
C4_OutcomeTransition ==
  [][\A w \in Workers :
       RecordStep(w) =>
         LET j == job[w][1].id IN
           job_queue'[j].status =
             IF Last(outcomes'[j]) = "success" THEN "completed"
             ELSE IF job_queue[j].attempts < MAX_ATTEMPTS THEN "pending"
             ELSE "failed"]_vars

\* C5: an add_job call for a (job_type, url) that has no row inserts one row
\* for it and returns that row's id; a call for a pair that has a row returns
\* None and inserts nothing; rows are never removed nor given another pair: so
\* two calls for one pair leave exactly one row, the first returning the id
\* and the second None.
C5_AddJobDedup ==
  [][/\ Len(job_queue') >= Len(job_queue)
     /\ \A i \in Ids : /\ job_queue'[i].job_type = job_queue[i].job_type
                       /\ job_queue'[i].url = job_queue[i].url
     /\ ret'.op = "add_job" =>
          LET t == ret'.job_type
              u == ret'.url
          IN /\ Cardinality(RowsWithKey(job_queue', t, u)) = 1
             /\ IF RowsWithKey(job_queue, t, u) = {}
                THEN /\ Len(job_queue') = Len(job_queue) + 1
                     /\ ret'.val = Some(Len(job_queue'))
                     /\ RowsWithKey(job_queue', t, u) = {Len(job_queue')}
                ELSE /\ ret'.val = None
                     /\ job_queue' = job_queue]_vars

\* two workers hold the same discovery job and both have enqueued the same
\* child: the second call has just returned None
C5_Witness ==
  /\ ret.op = "add_job" /\ ret.val = None
  /\ ret.job_type = "discover_uscode_sections"
  /\ Cardinality(RowsWithKey(job_queue, ret.job_type, ret.url)) = 1
  /\ \A w \in Workers : pc[w] = "process"

\* C6: the row get_next_job fetches is, in the table its SELECT reads, a
\* pending row with attempts < 3 of the highest priority among those, and of
\* the earliest created_at among those of that priority; it returns None only
\* when that table has no pending row with attempts < 3.
C6_SelectOrder ==
  [][\A w \in Workers :
       (pc[w] = "loop" /\ pc'[w] # "loop") =>
         LET el == {i \in Ids : job_queue[i].status = "pending" /\ job_queue[i].attempts < 3}
         IN IF pc'[w] = "sleep"
            THEN el = {}
            ELSE LET s == row'[w][1].id IN
                   /\ s \in el
                   /\ \A k \in el : job_queue[k].priority <= job_queue[s].priority
                   /\ \A k \in el : job_queue[k].priority = job_queue[s].priority
                                      => job_queue[s].created_at <= job_queue[k].created_at]_vars

\* a worker has fetched the row of higher priority although another eligible
\* row was created earlier
C6_Witness ==
  \E w \in Workers, k \in Eligible :
    /\ pc[w] = "update"
    /\ row[w][1].id \in Eligible
    /\ job_queue[k].priority < job_queue[row[w][1].id].priority
    /\ job_queue[k].created_at < job_queue[row[w][1].id].created_at

\* C7: a get_next_job call that returns j takes j from pending to processing
\* and raises its attempts by 1 from the value its SELECT read, in one step
\* with the selection, changing no other row and no other field of j; a call
\* that returns None changes no row.
C7_ClaimFrame ==
  [][\A w \in Workers :
       /\ ClaimStep(w) =>
            LET j == row[w][1].id IN
              /\ job_queue[j].status = "pending"
              /\ job_queue[j].attempts = row[w][1].attempts
              /\ job_queue'[j].status = "processing"
              /\ job_queue'[j].attempts = job_queue[j].attempts + 1
              /\ SameIdentity(job_queue'[j], job_queue[j])
              /\ \A i \in Ids \ {j} : job_queue'[i] = job_queue[i]
              /\ Len(job_queue') = Len(job_queue)
       /\ (pc[w] = "loop" /\ pc'[w] = "sleep") => job_queue' = job_queue]_vars

\* C8: every job has attempts <= MAX_ATTEMPTS, and has been returned by
\* get_next_job at most MAX_ATTEMPTS times.
C8_AttemptsBounded ==
  \A j \in Ids : job_queue[j].attempts <= MAX_ATTEMPTS /\ claims[j] <= MAX_ATTEMPTS

\* C9 as stated: every outcome a worker records for a claimed job appends
\* exactly one row for that job to job_results, and no step changes or removes
\* a row of job_results.
C9_EveryOutcomeLogged ==
  [][/\ Len(job_results') >= Len(job_results)
     /\ \A n \in DOMAIN job_results : job_results'[n] = job_results[n]
     /\ \A w \in Workers :
          RecordStep(w) =>
            /\ Len(job_results') = Len(job_results) + 1
            /\ Last(job_results').job_id = job[w][1].id]_vars

\* C9 as amended: a recorded success, and a recorded failure that leaves the
\* job 'failed', append exactly one row for that job to job_results; a
\* recorded failure that returns the job to 'pending' appends none; no step
\* changes or removes a row of job_results.
C9_TerminalOutcomesLogged ==
  [][/\ Len(job_results') >= Len(job_results)
     /\ \A n \in DOMAIN job_results : job_results'[n] = job_results[n]
     /\ \A w \in Workers :
          RecordStep(w) =>
            LET j == job[w][1].id IN
              IF job_queue'[j].status = "pending"
              THEN /\ Last(outcomes'[j]) = "failure"
                   /\ job_results' = job_results
              ELSE /\ Len(job_results') = Len(job_results) + 1
                   /\ Last(job_results').job_id = j
                   /\ Last(job_results').status =
                        IF Last(outcomes'[j]) = "success" THEN "success" ELSE "failed"]_vars

\* one job has been retried once and then completed: one row was logged
C9_Witness ==
  \E j \in Ids :
    /\ outcomes[j] = <<"failure", "success">>
    /\ Len(job_results) = 1
    /\ job_results[1] = [job_id |-> j, status |-> "success"]

\* C10: reset_stuck_jobs sets every processing job to pending, changes the
\* status of no other job, changes no job's attempts, job_type, url, params
\* or priority, adds and removes no job, and returns the number of jobs that
\* were processing.
C10_ResetStuck ==
  [][ret'.op = "reset_stuck_jobs" =>
       /\ Len(job_queue') = Len(job_queue)
       /\ \A i \in Ids :
            /\ job_queue'[i].status =
                 IF job_queue[i].status = "processing" THEN "pending"
                 ELSE job_queue[i].status
            /\ job_queue'[i].attempts = job_queue[i].attempts
            /\ SameIdentity(job_queue'[i], job_queue[i])
       /\ ret'.val = Cardinality({i \in Ids : job_queue[i].status = "processing"})]_vars

\* a reset has just returned 1 with a completed job in the table and the
\* job it reset keeping its attempts
C10_Witness ==
  /\ ret = [op |-> "reset_stuck_jobs", val |-> 1]
  /\ \E i \in Ids : job_queue[i].status = "completed"
  /\ \E i \in Ids : /\ job_queue[i].status = "pending"
                    /\ job_queue[i].attempts >= 1
                    /\ job_queue[i].last_attempt_at = None

\* C11: completed and failed are terminal: no step of the workers
\* (get_next_job, complete_job, retry_job), of reset_stuck_jobs or of add_job
\* changes the status of a job whose stored status is completed or failed.
C11_TerminalStatuses ==
  [][\A i \in Ids :
       job_queue[i].status \in {"completed", "failed"}
         => job_queue'[i].status = job_queue[i].status]_vars

\* C12: an add_job call for a (job_type, url) that already has a row leaves
\* that row's status, attempts, priority, params and created_at (and every
\* other row) as they were, whatever the row's status and whatever priority
\* and params the call passes.
C12_DuplicateAddIsNoOp ==
  [][(ret'.op = "add_job" /\ RowsWithKey(job_queue, ret'.job_type, ret'.url) # {}) =>
       /\ \A i \in RowsWithKey(job_queue, ret'.job_type, ret'.url) :
            /\ job_queue'[i].status = job_queue[i].status
            /\ job_queue'[i].attempts = job_queue[i].attempts
            /\ job_queue'[i].priority = job_queue[i].priority
            /\ job_queue'[i].params_json = job_queue[i].params_json
            /\ job_queue'[i].created_at = job_queue[i].created_at
       /\ job_queue' = job_queue]_vars

\* the handler of a claimed discover_uscode_sections job (stored with priority
\* 8 and the params of its parent) has just re-enqueued its own page with
\* priority 7 and other params: the call returned None and the row, still
\* processing, keeps priority 8 and its params
C12_Witness ==
  /\ ret.op = "add_job" /\ ret.val = None
  /\ \E i \in RowsWithKey(job_queue, ret.job_type, ret.url) :
       /\ job_queue[i].status = "processing"
       /\ job_queue[i].priority = 8
       /\ job_queue[i].params_json = Some("{title,name}")
       /\ \E w \in Workers : pc[w] = "process" /\ job[w][1].id = i

\* thread t's step is the return of its wait_if_needed call
WaitReturn(t) == wpc[t] = "held" /\ wpc'[t] = "idle"

\* C13: the times two successive wait_if_needed calls for one domain return
\* at (and record in last_request_time) differ by at least delay_seconds,
\* under every interleaving of the threads sharing the limiter; and no two
\* callers are past the elapsed-time check at once.
C13_SameDomainSpacing ==
  [][/\ \A t \in Threads :
          WaitReturn(t) =>
            last_request_time'[wdomain[t]] - last_request_time[wdomain[t]] >= delay_seconds
     /\ Cardinality({t \in Threads : wpc'[t] = "held"}) <= 1]_vars

\* a call that found its domain used by an earlier call less than
\* delay_seconds ago is at the end of its sleep, delay_seconds after that
\* call, and about to record; another call for the same domain is waiting
C13_Witness ==
  \E t \in Threads, u \in Threads :
    /\ wpc[t] = "held" /\ lock = Some(t)
    /\ last_request_time[wdomain[t]] >= delay_seconds
    /\ wake[t] = last_request_time[wdomain[t]] + delay_seconds
    /\ wake[t] > called[t] /\ clock = wake[t]
    /\ u # t /\ wpc[u] = "acquire" /\ wdomain[u] = wdomain[t]

\* C14: a wait_if_needed caller for one domain is never kept waiting by a
\* call for another domain: no caller whose own domain asked for no wait
\* when it called is still not past the lock, time having passed, while a
\* call made no later for a different domain holds the lock in its sleep.
C14_DomainsIndependent ==
  \A t \in Threads, u \in Threads :
    ~ /\ wpc[t] = "acquire" /\ lock = Some(u) /\ wpc[u] = "held"
      /\ wdomain[u] # wdomain[t]
      /\ wake[u] > clock
      /\ called[u] <= called[t]
      /\ called[t] - last_request_time[wdomain[t]] >= delay_seconds
      /\ clock > called[t]

\* C15: a wait_if_needed call returns at most delay_seconds after it was
\* made, however many threads call the shared limiter.
C15_BlocksAtMostDelay ==
  [][\A t \in Threads : WaitReturn(t) => clock - called[t] <= delay_seconds]_vars

\* thread t's step is an HTTP request of its fetch and what follows it
GetStep(t) == Len(responses'[t]) = Len(responses[t]) + 1

\* the host's domain as the limiter names it
domain_of(url) == IF url.host = BASE_URL THEN DEFAULT_DOMAIN ELSE url.host

\* C16: when the transport answers 404, at whichever attempt, fetch returns
\* its not-found result (None) at once: no backoff sleep follows, and no
\* further request of that fetch is ever sent after a 404; so a transport
\* answering 404 from the start gets exactly one request and no sleep, for
\* every max_retries >= 1.
C16_NotFoundEndsFetch ==
  [][\A t \in Threads :
       GetStep(t) =>
         /\ responses[t] # <<>> => Last(responses[t]) # "404"
         /\ Last(responses'[t]) = "404" =>
              /\ fpc'[t] = "returned" /\ result'[t] = None
              /\ sleeps'[t] = sleeps[t] /\ attempt'[t] = attempt[t]
              /\ Len(responses'[t]) = 1 => sleeps'[t] = <<>>]_vars

\* a fetch with max_retries = 3 has returned None on a 404 at its second
\* attempt, and one with max_retries = 1 on a 404 at its first
C16_Witness ==
  \E t \in Threads :
    /\ fpc[t] = "returned" /\ result[t] = None
    /\ \/ max_retries[t] = 3 /\ responses[t] = <<"timeout", "404">> /\ sleeps[t] = <<5>>
       \/ max_retries[t] = 1 /\ responses[t] = <<"404">> /\ sleeps[t] = <<>>

\* C17 as stated: after a 429 on attempt k fetch sleeps (k+1)*30 seconds and
\* then makes another attempt; a fetch that got 429 then 200 has returned the
\* response after two attempts and one sleep of 30.
C17_RateLimitedRetries ==
  [][\A t \in Threads :
       /\ (GetStep(t) /\ Last(responses'[t]) = "429") =>
            /\ sleeps'[t] = Append(sleeps[t], (attempt[t] + 1) * 30)
            /\ fpc'[t] = "backoff" /\ attempt'[t] < max_retries[t]
       /\ (fpc'[t] = "returned" /\ responses'[t] = <<"429", "200">>) =>
            /\ result'[t] # None /\ sleeps'[t] = <<30>>]_vars

\* C17 as amended: after a 429 on attempt k fetch sleeps (k+1)*30 seconds;
\* it then makes another attempt if k < max_retries - 1, and otherwise returns
\* the failure result (None) with no further attempt; a fetch that got 429
\* then 200 has returned the response after two attempts and one sleep of 30.
C17_RateLimitedRetriesBounded ==
  [][\A t \in Threads :
       /\ (GetStep(t) /\ Last(responses'[t]) = "429") =>
            /\ sleeps'[t] = Append(sleeps[t], (attempt[t] + 1) * 30)
            /\ fpc'[t] = "backoff" /\ attempt'[t] = attempt[t] + 1
            /\ (attempt[t] < max_retries[t] - 1) = (attempt'[t] < max_retries[t])
       /\ (fpc[t] = "loop" /\ fpc'[t] # "loop" /\ responses[t] # <<>>
             /\ Last(responses[t]) = "429" /\ attempt[t] = max_retries[t]) =>
            /\ fpc'[t] = "returned" /\ result'[t] = None
            /\ responses'[t] = responses[t]
       /\ (fpc'[t] = "returned" /\ responses'[t] = <<"429", "200">>) =>
            /\ result'[t] # None /\ sleeps'[t] = <<30>>]_vars

\* a fetch has returned the response after 429 then 200, having slept 30
C17_Witness ==
  \E t \in Threads :
    /\ fpc[t] = "returned" /\ responses[t] = <<"429", "200">>
    /\ sleeps[t] = <<30>> /\ result[t] = Some("response")

\* C18: whatever the transport answers, a fetch sends at most max_retries
\* requests; it returns a response only if its last request was answered
\* 200, and returns the failure result (None) when max_retries requests have
\* all failed.
C18_BoundedAttempts ==
  \A t \in Threads :
    /\ Len(responses[t]) <= max_retries[t]
    /\ attempt[t] <= max_retries[t]
    /\ fpc[t] # "returned" => \A n \in DOMAIN responses[t] : responses[t][n] # "200"
    /\ fpc[t] = "returned" =>
         /\ result[t] # None <=> (responses[t] # <<>> /\ Last(responses[t]) = "200")
         /\ \A n \in 1..(Len(responses[t]) - 1) : responses[t][n] \notin {"200", "404"}

\* a fetch with max_retries = 3 has returned None after three failed requests
C18_Witness ==
  \E t \in Threads :
    /\ fpc[t] = "returned" /\ result[t] = None /\ max_retries[t] = 3
    /\ responses[t] = <<"429", "connection_error", "http_error">>
    /\ sleeps[t] = <<30, 20>>

\* C19: every request a fetch sends comes after a wait_if_needed call of its
\* own that has returned: a fetch has made as many limiter calls as requests,
\* plus the one in progress or just returned before the next request.
C19_LimiterBeforeEveryRequest ==
  [][\A t \in Threads :
       /\ waits'[t] = Len(responses'[t]) + (IF fpc'[t] = "limiter" THEN 1 ELSE 0)
       /\ GetStep(t) =>
            /\ fpc[t] = "limiter" /\ wpc[t] = "idle"
            /\ waits[t] = Len(responses[t]) + 1]_vars

\* a fetch has returned after three requests and three limiter calls while
\* another thread is in a wait_if_needed call of its own
C19_Witness ==
  \E t \in Threads :
    /\ fpc[t] = "returned" /\ Len(responses[t]) = 3 /\ waits[t] = 3
    /\ \E u \in Threads \ {t} : wpc[u] # "idle"

\* C20: the wait_if_needed call fetch makes before an attempt on url is for
\* the domain of url.
C20_LimiterDomainOfUrl ==
  [][\A t \in Threads :
       (fpc[t] = "limiter" /\ WaitReturn(t)) =>
         wdomain[t] = domain_of(fetch_url[t])]_vars

\* how a returned fetch ended: on a response, on a 404, or with its attempts
\* used up
FetchEnd(t) ==
  IF responses[t] # <<>> /\ Last(responses[t]) = "200" THEN "Response"
  ELSE IF responses[t] # <<>> /\ Last(responses[t]) = "404" THEN "NotFound"
  ELSE "Failed"

\* C21: the value fetch returns tells Response, NotFound and Failed apart:
\* two fetches that returned the same value ended the same way.
C21_ResultTellsOutcome ==
  \A t \in Threads, u \in Threads :
    (/\ fpc[t] = "returned" /\ responses[t] # <<>>
     /\ fpc[u] = "returned" /\ responses[u] # <<>>
     /\ result[t] = result[u])
      => FetchEnd(t) = FetchEnd(u)

\* a row in status processing that no worker holds, before any stop: what a
\* failed complete_job or retry_job leaves behind
Orphaned(i) ==
  /\ job_queue[i].status = "processing"
  /\ \A w \in Workers : job[w] = None \/ job[w][1].id # i

\* C22: a worker that has left its run loop has left it because the stop
\* signal was set: no failure of get_next_job, of the handler, of the handler
\* lookup or of complete_job/retry_job ends the loop.
C22_LoopEndsOnlyOnStop ==
  \A w \in Workers : pc[w] = "stopped" => stop_event

\* a worker back in its loop, the stop signal not set, after the recording of
\* a job's outcome failed and left the job's row in processing
C22_Witness ==
  /\ ~stop_event
  /\ \E w \in Workers : pc[w] = "loop"
  /\ \E i \in Ids : Orphaned(i) /\ claims[i] > 0

\* the step in which worker w's process_job call ends
ProcessStep(w) == pc[w] \in {"process", "saved"} /\ pc'[w] \notin {"process", "saved"}

\* C23: an exception raised while dispatching a claimed job gets the job the
\* transition a handler's error status gets it: the step is the one
\* record_outcome makes for "error", the job is not left in processing, and
\* the worker goes back to the top of its loop.
C23_ExceptionLikeError ==
  [][\A w \in Workers :
       (ProcessStep(w) /\ ret' = ProcessRet("exception"))
         => /\ record_outcome(job[w][1], "error")
            /\ job_queue'[job[w][1].id].status \in {"pending", "failed"}
            /\ pc'[w] = loop_top]_vars

\* a worker back in its loop after a dispatch that raised: the job is pending
\* again, no result row written for it
C23_Witness ==
  /\ ret = ProcessRet("exception")
  /\ \E w \in Workers : pc[w] = "loop"
  /\ \E i \in Ids :
       /\ job_queue[i].status = "pending" /\ job_queue[i].attempts = 1
       /\ outcomes[i] = <<"failure">>
       /\ job_results = <<>>

\* C24: in the end-to-end run of a seeded discovery job with three children
\* and every handler succeeding, wait_for_completion returns with
\* get_queue_stats reporting completed = 4 and nothing pending, processing or
\* failed, each of the four jobs having been handled exactly once.
C24_EndToEndStats ==
  [][(wfc = "read" /\ wfc' = "returned")
       => /\ get_queue_stats = [st \in Statuses |->
                                  IF st = "completed" THEN 1 + Cardinality(E2EUrls) ELSE 0]
          /\ Len(job_queue) = 1 + Cardinality(E2EUrls)
          /\ \A i \in Ids : claims[i] = 1]_vars

\* C25: wait_for_completion returns only when the get_queue_stats it has just
\* read shows nothing pending and nothing processing, or when the stop signal
\* is set.
C25_ReturnsOnlyWhenDrainedOrStopped ==
  [][(wfc # "returned" /\ wfc' = "returned")
       => \/ wfc = "check" /\ stop_event
          \/ /\ wfc = "read"
             /\ get_queue_stats["pending"] = 0
             /\ get_queue_stats["processing"] = 0]_vars

\* wait_for_completion has returned, the stop signal not set, on a queue whose
\* jobs have all been worked off
C25_Witness ==
  /\ wfc = "returned"
  /\ ~stop_event
  /\ job_queue # <<>>
  /\ \A i \in Ids : job_queue[i].status \in {"completed", "failed"}

\* C26: get_queue_stats gives, for each status, the number of job_queue rows
\* in that status; its 'completed' value is the number of rows whose status
\* is completed.
C26_StatsCountRows ==
  \A st \in Statuses :
    get_queue_stats[st] = Cardinality({i \in Ids : job_queue[i].status = st})

\* C27: once the stop signal is set no worker passes the loop's check again: a
\* worker already past it claims at most the one job it was about to claim
\* and leaves when that handling ends, a sleeping worker leaves when its sleep
\* ends, and a worker that has left claims nothing.
C27_StopsAtNextCheck ==
  [][\A w \in Workers :
       /\ (stop_event /\ pc'[w] = "loop") => pc[w] = "loop"
       /\ (stop_event /\ pc[w] = "sleep" /\ pc'[w] # "sleep") => pc'[w] = "stopped"
       /\ (stop_event /\ ProcessStep(w)) => pc'[w] \in {"stopped", "sleep"}
       /\ pc[w] = "stopped" => pc'[w] = "stopped"]_vars

\* the stop signal set, one worker gone at its check, another still in the
\* handling of the job it had claimed
C27_Witness ==
  /\ stop_event
  /\ \E w \in Workers, v \in Workers :
       /\ pc[w] = "stopped"
       /\ pc[v] = "process" /\ job_queue[job[v][1].id].status = "processing"

\* C28: a job in a handler when the stop signal is raised is not interrupted,
\* and once its handler call has returned and its worker has stopped its row
\* is still in status processing.
C28_LeftProcessingAtStop ==
  [][\A w \in Workers :
       (stop_event /\ ProcessStep(w) /\ pc'[w] = "stopped")
         => /\ ret'.op = "process_job"
            /\ job_queue'[job[w][1].id].status = "processing"]_vars

\* C29: a claim adds exactly 1 to the job's attempts and nothing else changes
\* them; while a fetch is in progress, whatever the number of its HTTP
\* attempts, the stored jobs keep their attempts and status; and the fetch a
\* handler makes gets the default max_retries whatever the job's attempts,
\* and sends no more requests than that.
C29_RetryBudgetsIndependent ==
  [][/\ \A i \in Ids :
          job_queue'[i].attempts # job_queue[i].attempts
            => /\ job_queue'[i].attempts = job_queue[i].attempts + 1
               /\ \E w \in Workers : ClaimStep(w) /\ row[w][1].id = i
     /\ \A t \in Threads :
          fpc[t] \in {"loop", "limiter", "backoff"}
            => \A i \in Ids : /\ job_queue'[i].attempts = job_queue[i].attempts
                              /\ job_queue'[i].status = job_queue[i].status
     /\ \A w \in Workers :
          (pc[w] = "process" /\ fpc[w] = "idle" /\ fpc'[w] = "loop")
            => max_retries'[w] = DEFAULT_MAX_RETRIES
     /\ \A w \in Workers :
          pc[w] = "process" => Len(responses[w]) <= DEFAULT_MAX_RETRIES]_vars

\* the second handling of a job, its fetch having sent two requests: the job
\* has been claimed twice and its attempts is 2
C29_Witness ==
  \E w \in Workers :
    /\ pc[w] = "process" /\ job[w][1].attempts = 1
    /\ max_retries[w] = DEFAULT_MAX_RETRIES
    /\ Len(responses[w]) = 2
    /\ job_queue[job[w][1].id].attempts = 2
    /\ claims[job[w][1].id] = 2

\* C30: handling a job again leaves storage as one handling does: a url has at
\* most one row in an artifact table, exactly one once a handler has saved
\* it, however often it was saved, and a (job_type, url) has at most one job
\* however often a discovery handler enqueued it.
C30_HandlersIdempotentOnStorage ==
  /\ \A tbl \in ArtifactTables : \A n \in DOMAIN tables[tbl] :
       Cardinality(RowsWithUrl(tbl, tables[tbl][n].url)) = 1
  /\ \A w \in Workers :
       pc[w] = "saved" =>
         Cardinality(RowsWithUrl(ArtifactTable(job[w][1].job_type), job[w][1].url)) = 1
  /\ \A i \in Ids :
       Cardinality(RowsWithKey(job_queue, job_queue[i].job_type, job_queue[i].url)) = 1

\* a scrape job handled for the second time has saved again, and its
\* discovery job was handled twice too: the url's row is the second one
\* written and is the only one, and there are no more jobs than keys
C30_Witness ==
  \E w \in Workers :
    /\ pc[w] = "saved" /\ claims[job[w][1].id] = 2
    /\ \E i \in Ids : Children(job_queue[i].job_type) # {} /\ claims[i] = 2
    /\ LET tbl == ArtifactTable(job[w][1].job_type) IN
         /\ Len(tables[tbl]) = 1
         /\ tables[tbl][1].id = 2
         /\ tables[tbl][1].url = job[w][1].url

\* C31: a worker in a backoff sleep of fetch holds nothing another worker
\* waits for: it is not inside wait_if_needed and does not hold the limiter's
\* lock, and it is inside its handler, not inside a call of the job queue.
C31_BackoffHoldsNoLock ==
  \A t \in Threads :
    fpc[t] = "backoff"
      => /\ lock # Some(t) /\ wpc[t] = "idle"
         /\ pc[t] = "process" /\ row[t] = None

\* worker 1 asleep in a backoff while another worker, in the handler of the
\* job it has claimed, holds the limiter's lock on its way to a request
C31_Witness ==
  /\ fpc[1] = "backoff"
  /\ \E w \in Workers \ {1} :
       /\ pc[w] = "process" /\ job_queue[job[w][1].id].status = "processing"
       /\ lock = Some(w) /\ wpc[w] = "held"

\* C32: every wait_for_token call returns only after debiting exactly one
\* token from a bucket that held at least one token, the token count always
\* satisfies 0 <= tokens <= capacity, and at most capacity calls return
\* without a refill between them (time that passes).
C32_TokenBucket ==
  [][/\ 0 <= bucket'.tokens /\ bucket'.tokens <= bucket'.capacity
     /\ Len(returns') > Len(returns)
          => /\ refilled >= TokenScale
             /\ bucket'.tokens = refilled - TokenScale
     /\ Cardinality({i \in DOMAIN returns' : returns'[i] = clock'}) * TokenScale
          <= bucket'.capacity]_vars

\* more calls have returned than the bucket's capacity, the last of them after
\* sleeping for a refill, and the bucket holds a fraction of a token
C32_Witness ==
  /\ Len(returns) * TokenScale > bucket.capacity
  /\ \E t \in Threads :
       /\ tbpc[t] = "idle" /\ tbwake[t] # 0 /\ Last(returns) >= tbwake[t]
  /\ bucket.tokens % TokenScale # 0

\* C33: canonical identifiers round-trip: for a UscId, a PublicLawId and a
\* CfrId (with and without section) whose fields are in the canonical
\* alphabet, parse(str(x)) is an identifier with the same field values as x.
C33_RoundTrip ==
  (ipc = "parsed" /\ Canonical(ident)) => parsed = Some(ident)

\* a CfrId without section and a UscId whose section has a letter, a dash and
\* a dot have made the round trip
C33_Witness ==
  /\ ipc = "parsed" /\ Canonical(ident) /\ parsed = Some(ident)
  /\ \/ ident.kind = "cfr" /\ ident.section = None /\ ident.part = 1308
     \/ ident.kind = "usc" /\ ident.section = <<"1", "a", "-", "2", ".", "B">>

\* C34: every pending job is eligible for get_next_job: no job is pending
\* with attempts >= MAX_ATTEMPTS.
C34_PendingIsEligible ==
  \A i \in Ids : job_queue[i].status = "pending" => job_queue[i].attempts < MAX_ATTEMPTS

\* C35: with the workers running fairly, every handler returning and nobody
\* stopping the pool, wait_for_completion returns in the end for every finite
\* set of jobs, also when a job's handling fails on every attempt.
C35_WaitReturns == <>(wfc = "returned")

\* C36: the attempts in the dictionary get_next_job returns is the job's
\* stored attempts after that claim.
C36_ReturnedAttemptsAreStored ==
  [][\A w \in Workers :
       ClaimStep(w) => job'[w][1].attempts = job_queue'[job'[w][1].id].attempts]_vars

\* C37: quiescence is stable: whenever no job is pending and none is
\* processing, no worker is inside a handler (so the pool adds no job
\* afterwards), and wait_for_completion cannot read pending = 0 and
\* processing = 0 while crawl work remains.
C37_QuiescenceStable ==
  done(get_queue_stats) => \A w \in Workers : pc[w] \notin {"process", "saved"}

\* C38: a 404 is never retried at any layer: a scrape job whose url answers
\* 404 at every request gets exactly one request over its lifetime, so every
\* request a handler has sent for such a job was sent in the job's first claim.
C38_NotFoundRequestedOnce ==
  \A w \in Workers :
    (/\ pc[w] = "process" /\ job[w][1].job_type \in ScrapeTypes
     /\ responses[w] # <<>> /\ Last(responses[w]) = "404")
      => claims[job[w][1].id] = 1

\* C39: every backoff sleep of a fetch is followed by another request: a
\* fetch that has returned has slept once less than it has sent requests.
C39_NoSleepAfterLastAttempt ==
  \A t \in Threads :
    (fpc[t] = "returned" /\ responses[t] # <<>>)
      => Len(sleeps[t]) = Len(responses[t]) - 1

====
